---- MODULE Spec2Model ----
(***************************************************************************)
(* Model of src/src/vader_cluster.py: the disk registry (disk_codes,       *)
(* disk_codes_indices, active_disks, diverged_disks), the grid queries and *)
(* the evolution loop of main().                                           *)
(*                                                                         *)
(* Units.  Lengths are in units of 0.25 au, so that the 0.5 au threshold   *)
(* of the code is the integer HalfAu.  Column densities are in units of    *)
(* 1E-12 g/cm**2, so that the code's density constants 1E-12, 1E-11, 1E-10 *)
(* and 1E-5 are the integers 1, 10, 100 and 10000000.  Masses are in the   *)
(* unit (density unit) * (area unit); a star's stellar_mass and mass are    *)
(* counted from its initial stellar mass.  Time is in units of the step.   *)
(*                                                                         *)
(* The external codes (gravity, stellar evolution, the viscous solver, the *)
(* FRIED interpolation) are inputs: what they report in a step is drawn    *)
(* from small sets with \E.  disk.stop() is recorded in `stopped`; what a  *)
(* stopped solver answers to a later grid read is the solver's business    *)
(* and not in the source, so the grid of a stopped handle stays readable.  *)
(***************************************************************************)
EXTENDS Integers, Sequences, FiniteSets, TLC

\* ------------------------------------------------------------------ bounds
NS == 3            \* number of low-mass (disk-bearing) stars, small_stars
NB == 1            \* number of bright stars
NCells == 4        \* n_cells of every vader grid
TEnd == 2          \* t_end, in steps
MaxDt == 2         \* largest initial dt
MaxPairs == 2      \* most colliding pairs the stopping condition reports at once
NRows == 3         \* number of rows of the FRIED table

\* ------------------------------------------------------- program constants
LowerDensity == 1                  \* lower_density = 1E-12 g/cm**2
TruncateLimit == 10                \* truncate_disk density_limit = 1E-11
RadiusLimit == 100                 \* get_disk_radius density_limit = 1E-10
DispersionThreshold == 10000000    \* s.dispersion_threshold = 1E-5
HalfAu == 2                        \* 0.5 au
MassFloor == 1000                  \* 0.03 MEarth

Small == 1 .. NS                   \* keys of small_stars, in population order
Bright == (NS + 1) .. (NS + NB)    \* keys of bright_stars
Handles == Small                   \* handle h is the vader code created for star h
None == 0                          \* Python's None where a handle is expected
NoDisk == <<>>                     \* Python's None returned by evaporate

\* -------------------------------------------------------------- the grid
\* disk.grid.r of cell i (1-based here, 0-based in the code): strictly increasing
GridR(i) == 2 * i - 1
\* disk.grid.area of cell i
GridArea(i) == i

Min(a, b) == IF a < b THEN a ELSE b

RECURSIVE SumTo(_, _)
\* sum of column_density * area over the first n cells
SumTo(g, n) == IF n = 0 THEN 0 ELSE SumTo(g, n - 1) + g[n] * GridArea(n)

RECURSIVE DensitySumTo(_, _)
DensitySumTo(g, n) == IF n = 0 THEN 0 ELSE DensitySumTo(g, n - 1) + g[n]

\* column_density(): Sigma_0 (rc/r) exp(-r/rc) where r <= rc, plus lower_density
column_density(rc) ==
  [i \in 1 .. NCells |->
     (IF GridR(i) <= rc THEN (NCells + 1 - i) * 2 * DispersionThreshold ELSE 0)
       + LowerDensity]

RECURSIVE RadiusScan(_, _, _)
\* the loop of get_disk_radius from cell i on; prev is prev_r (as a cell number)
RadiusScan(g, i, prev) ==
  IF i > Len(g) THEN prev
  ELSE IF g[i] < RadiusLimit THEN prev
  ELSE RadiusScan(g, i + 1, i)

\* the cell whose radius get_disk_radius returns
RadiusCell(g) == RadiusScan(g, 1, 1)

get_disk_radius(g) == GridR(RadiusCell(g))

\* get_disk_mass: zip(mass_cells, column_density, area) pairs the cells with
\* r <= radius with the FIRST cells of the grid
get_disk_mass(g, radius) ==
  SumTo(g, Cardinality({i \in 1 .. Len(g) : GridR(i) <= radius}))

\* get_disk_density: mean over grid[:radius_index]; <<sum, count>>, count = 0 is nan
get_disk_density(g) ==
  <<DensitySumTo(g, RadiusCell(g) - 1), RadiusCell(g) - 1>>

\* disk_density <= s.dispersion_threshold (False for nan)
DensityAtMost(dens, threshold) == dens[2] > 0 /\ dens[1] <= threshold * dens[2]

\* mutant of truncate_disk: the cell at new_radius is cut as well
truncate_disk_Inclusive(g, new_radius) ==
  [i \in 1 .. Len(g) |-> IF GridR(i) >= new_radius THEN TruncateLimit ELSE g[i]]

truncate_disk(g, new_radius) ==
  [i \in 1 .. Len(g) |-> IF GridR(i) > new_radius THEN TruncateLimit ELSE g[i]]

RECURSIVE SwipedFrom(_, _, _, _)
\* swiped_mass when the loop of evaporate, at 1-based cell i, ends
SwipedFrom(g, mass_to_remove, i, swiped) ==
  IF i < 1 THEN swiped
  ELSE LET s == swiped + g[i] * GridArea(i)
       IN IF s < mass_to_remove THEN SwipedFrom(g, mass_to_remove, i - 1, s) ELSE s

\* swiped_mass of evaporate(g, mass_to_remove) when it returns
swiped_mass(g, mass_to_remove) ==
  SwipedFrom(g, mass_to_remove, RadiusCell(g) - 1, 0)

RECURSIVE EvaporateFrom(_, _, _, _)
\* the loop of evaporate at 1-based cell i with swiped_mass = swiped
EvaporateFrom(g, mass_to_remove, i, swiped) ==
  IF i < 1 THEN NoDisk
  ELSE LET s == swiped + g[i] * GridArea(i)
       IN IF s < mass_to_remove THEN EvaporateFrom(g, mass_to_remove, i - 1, s)
          ELSE IF i = 1 THEN NoDisk
          ELSE truncate_disk(g, GridR(i))

\* range(init_cell)[::-1] starts one cell inside the cell of the disk radius
evaporate(g, mass_to_remove) ==
  EvaporateFrom(g, mass_to_remove, RadiusCell(g) - 1, 0)

\* ------------------------------------------------------------- the inputs
\* rc = 100 sqrt(stellar_mass) au of low-mass star k: the stars alternate between
\* a disk that fills the grid and one that ends inside it
InitialRadius(k) == IF k % 2 = 1 THEN GridR(NCells) + 1 ELSE GridR(NCells) - 1
\* truncation_radius of resolve_encounter: dispersing, truncating, harmless
TruncationRadii == {HalfAu, GridR(2) + 1, GridR(NCells) + 2}
\* explosion_distance of a low-mass star to the supernova
Distances == 0 .. 3
\* r_disk = a * d ** b * abs(cos(induced_inclination)) ** c: 0 iff d = 0, increasing
SupernovaRadius(d) == 2 * d
\* the largest initial disk mass
MaxInitialMass == get_disk_mass(column_density(GridR(NCells)), GridR(NCells))
\* total_photoevap_mass_loss of a star in a step
MassLosses == {1, MaxInitialMass}

Thin(g) == [i \in 1 .. Len(g) |-> Min(g[i], DispersionThreshold)]
Drained(g) == [i \in 1 .. Len(g) |-> TruncateLimit]
\* c.inner_boundary_mass_out of a handle: some mass has gone to the star
Accreted == {1}
\* what a successful disk.evolve_model(dt) can leave in the grid
ViscousOutcomes(g) == {g, Thin(g), Drained(g)}

\* ---------------------------------------------------------------- state
VARIABLES
  pc,                  \* position of main() in the loop body
  t, dt,               \* the loop's time and step
  stars,               \* attributes of the low-mass stars, by key
  bright_stars,        \* keys of the bright stars still in the population
  disk_codes,          \* the list of active handles
  disk_codes_indices,  \* the dict star key -> 0-based position in disk_codes
  active_disks,        \* the counter of active disks
  diverged_disks,      \* the dict handle -> bool
  grid,                \* column density of every handle's grid
  stopped,             \* handles on which stop() was called
  cur,                 \* the index of the running for loop
  zipped,              \* the list zip(small_stars, disk_codes) of the check pass
  photo,               \* the list small_stars[small_stars.dispersed == False]
  phases,              \* history: the phases of the current step, in order
  evolved,             \* history: handles evolve was attempted on in this step
  evap,                \* history: stars evaporate was called for in this step
  error,               \* the exception that ended main(), or "none"
  encountering_stars,  \* the pair of keys given to resolve_encounter in this step
  star_codes,          \* the pair of handles given to resolve_encounter in this step
  collisions,          \* history: pairs the stopping condition reported, pairs resolved
  disk,                \* a single library call: the grid of the handle it is given
  call,                \* a single library call: the function and its arguments
  ret                  \* a single library call: what it returned

\* the state of main()
main == <<pc, t, dt, stars, bright_stars, disk_codes, disk_codes_indices,
          active_disks, diverged_disks, grid, stopped, cur, zipped, photo,
          phases, evolved, evap, error, encountering_stars, star_codes,
          collisions>>

\* the encounter block's variables, which nothing reads after line 692
encounter == <<encountering_stars, star_codes, collisions>>

\* no encounter in this step
NoCollision == [reported |-> 0, resolved |-> 0]

\* the state of a call of one of the library functions on its own
calls == <<disk, call, ret>>

vars == <<main, calls>>

registry == <<disk_codes, disk_codes_indices, active_disks, stopped>>
loops == <<cur, zipped, photo>>
clock == <<t, dt>>

\* lines 492-546: the attributes main() gives a low-mass star with disk size rc
NewStar(rc) ==
  LET g == column_density(rc)
  IN [dispersed |-> FALSE, checked |-> FALSE, code |-> TRUE,
      disk_radius |-> rc,
      disk_mass |-> get_disk_mass(g, rc),
      \* stellar_mass and mass are counted from the star's initial stellar mass:
      \* line 498, mass = stellar_mass + disk_mass
      stellar_mass |-> 0,
      mass |-> 0 + get_disk_mass(g, rc),
      cumulative_photoevap_mass_loss |-> 0,
      truncation_mass_loss |-> 0,
      cumulative_truncation_mass_loss |-> 0,
      initial_disk_mass |-> get_disk_mass(g, get_disk_radius(g))]

Init ==
  /\ pc = "loop"
  /\ t = 0
  /\ dt \in 1 .. MaxDt
  /\ stars = [k \in Small |-> NewStar(InitialRadius(k))]
  /\ grid = [h \in Handles |-> column_density(InitialRadius(h))]
  /\ bright_stars = Bright
  /\ disk_codes = [p \in 1 .. NS |-> p]
  /\ disk_codes_indices = [k \in Small |-> k - 1]
  /\ active_disks = NS
  /\ diverged_disks = [h \in Handles |-> FALSE]
  /\ stopped = [h \in Handles |-> FALSE]
  /\ cur = 0
  /\ zipped = <<>>
  /\ photo = <<>>
  /\ phases = <<>>
  /\ evolved = {}
  /\ evap = {}
  /\ error = "none"
  /\ encountering_stars = <<>>
  /\ star_codes = <<>>
  /\ collisions = NoCollision
  /\ disk = NoDisk
  /\ call = [fn |-> "main", done |-> TRUE]
  /\ ret = None

\* ------------------------------------------------------------ the registry
\* mutant of DelAt: the last handle is deleted instead of the one at to_del
DelAt_Last(codes, to_del) == [p \in 1 .. (Len(codes) - 1) |-> codes[p]]

\* del disk_codes[to_del], to_del 0-based
DelAt(codes, to_del) ==
  [p \in 1 .. (Len(codes) - 1) |-> IF p <= to_del THEN codes[p] ELSE codes[p + 1]]

\* mutant of ShiftIndex: the indices above the deleted one are not moved down
ShiftIndex_NoShift(index, to_del) == index

\* for i in disk_codes_indices: if disk_codes_indices[i] > to_del: ... -= 1
ShiftIndex(index, to_del) == IF index > to_del THEN index - 1 ELSE index

\* the shift loop followed by del disk_codes_indices[key]
DelKey(indices, key, to_del) ==
  [k \in (DOMAIN indices) \ {key} |-> ShiftIndex(indices[k], to_del)]

Registered(k) == k \in DOMAIN disk_codes_indices

\* disk_codes[disk_codes_indices[k]]
CodeOf(k) == disk_codes[disk_codes_indices[k] + 1]

\* the retirement block: stop the handle, delete it, shift, delete the key, count
\* down; also = the handle of an extra c.stop(), or None.  g is the grids as the
\* step leaves them: the registry is the only way to a handle's grid, so the
\* grid of the deleted handle is never read again and the model forgets it
Retire(key, also, g) ==
  LET to_del == disk_codes_indices[key]
  IN /\ stopped' = [h \in Handles |->
                      stopped[h] \/ h = disk_codes[to_del + 1] \/ h = also]
     /\ grid' = [g EXCEPT ![disk_codes[to_del + 1]] = NoDisk]
     /\ disk_codes' = DelAt(disk_codes, to_del)
     /\ disk_codes_indices' = DelKey(disk_codes_indices, key, to_del)
     /\ active_disks' = active_disks - 1

\* an uncaught exception ends main()
Raise(err) == pc' = "crashed" /\ error' = err

\* the current step enters phase p (recorded once)
Mark(p) ==
  phases' = IF phases # <<>> /\ phases[Len(phases)] = p THEN phases
            ELSE Append(phases, p)

\* --------------------------------------------------- the loop: lines 615-700
\* while t < t_end: dt = min(dt, t_end - t); after the loop main() returns
LoopHead ==
  /\ pc = "loop"
  /\ UNCHANGED <<calls, encounter>>
  /\ IF t < TEnd
     THEN /\ dt' = Min(dt, TEnd - t)
          /\ pc' = "stellar_half_1"
          /\ phases' = <<>>
          /\ evolved' = {}
          /\ evap' = {}
     ELSE /\ pc' = "done"
          /\ UNCHANGED <<dt, phases, evolved, evap>>
  /\ UNCHANGED <<t, stars, bright_stars, registry, diverged_disks, grid, loops, error>>

\* stellar.evolve_model(t + dt/2) and the energy bookkeeping lists
StellarHalf1 ==
  /\ pc = "stellar_half_1"
  /\ UNCHANGED <<calls, encounter>>
  /\ pc' = "gravity"
  /\ Mark("stellar_half_1")
  /\ UNCHANGED <<clock, stars, bright_stars, registry, diverged_disks, grid, loops,
                 evolved, evap, error>>

\* the mass the gravity code holds for low-mass star k: the mass the star had when
\* it was added (line 555); the channel to gravity copies collisional_radius only
GravityMass(k) == NewStar(InitialRadius(k)).mass

\* channel_from_gravity_to_framework.copy() copies the gravity particles'
\* attributes, mass among them, into stars
FromGravity == [k \in Small |-> [stars[k] EXCEPT !.mass = GravityMass(k)]]

\* gravity.evolve_model(t + dt) and channel_from_gravity_to_framework.copy()
GravityStep ==
  /\ pc = "gravity"
  /\ UNCHANGED <<calls, encounter>>
  /\ pc' = "encounter"
  /\ stars' = FromGravity
  /\ Mark("gravity")
  /\ UNCHANGED <<clock, bright_stars, registry, diverged_disks, grid, loops,
                 evolved, evap, error>>

\* dynamical_encounter.is_set() is false
NoEncounter ==
  /\ pc = "encounter"
  /\ UNCHANGED <<calls, encounter>>
  /\ pc' = "stellar_half_2"
  /\ Mark("encounter")
  /\ UNCHANGED <<clock, stars, bright_stars, registry, diverged_disks, grid, loops,
                 evolved, evap, error>>

\* lines 640-666: the handles main() passes for the pair (k0, k1), None for no
\* handle; raised is the uncaught KeyError of a lookup inside the except branch
StarCodes(k0, k1) ==
  LET Pair(c0, c1) == [raised |-> FALSE, c0 |-> c0, c1 |-> c1]
      KeyError == [raised |-> TRUE, c0 |-> None, c1 |-> None]
  IN IF Registered(k0) /\ Registered(k1) THEN Pair(CodeOf(k0), CodeOf(k1))
     ELSE IF k0 \in bright_stars /\ k1 \in Small
          THEN IF ~stars[k1].dispersed
               THEN (IF Registered(k1) THEN Pair(None, CodeOf(k1)) ELSE KeyError)
               ELSE Pair(None, None)
     ELSE IF k1 \in bright_stars /\ k0 \in Small
          THEN IF ~stars[k0].dispersed
               THEN (IF Registered(k0) THEN Pair(CodeOf(k0), None) ELSE KeyError)
               ELSE Pair(None, None)
     ELSE Pair(None, None)

\* lines 390-437: what resolve_encounter does to one star s with grid g and
\* truncation radius tr: <<star, grid, truncated>>
ResolveStar(s, g, tr) ==
  IF tr < s.disk_radius
  THEN IF tr <= HalfAu
       THEN \* disk_mass is zeroed before it is read for the mass loss
            <<[s EXCEPT !.dispersed = TRUE, !.disk_radius = tr, !.disk_mass = 0,
                        !.truncation_mass_loss = 0,
                        !.cumulative_truncation_mass_loss = @ + 0],
              g, TRUE>>
       ELSE LET old_mass == get_disk_mass(g, s.disk_radius)
                new_disk == truncate_disk(g, tr)
                new_mass == get_disk_mass(new_disk, tr)
            IN <<[s EXCEPT !.truncation_mass_loss = old_mass - new_mass,
                           !.cumulative_truncation_mass_loss = @ + old_mass - new_mass,
                           !.disk_mass = new_mass,
                           !.mass = s.stellar_mass + new_mass],
                 new_disk, TRUE>>
  ELSE <<s, g, FALSE>>

\* lines 632-692: the stopping condition reports n colliding pairs, the first of
\* them stars k0 and k1 with truncation radii tr0, tr1; particles(0)[0] and
\* particles(1)[0] are the pair that is resolved
Encounter ==
  /\ pc = "encounter"
  /\ UNCHANGED calls
  /\ Mark("encounter")
  /\ \E n \in 1 .. MaxPairs : collisions' = [reported |-> n, resolved |-> 1]
  /\ \E k0, k1 \in Small \cup bright_stars : \E tr0, tr1 \in TruncationRadii :
       /\ k0 # k1
       /\ encountering_stars' = <<k0, k1>>
       /\ LET codes == StarCodes(k0, k1)
          IN IF codes.raised
             THEN /\ Raise("KeyError")
                  /\ star_codes' = <<>>
                  /\ UNCHANGED <<stars, grid>>
             ELSE LET r0 == IF codes.c0 = None THEN <<0, 0, FALSE>>
                            ELSE ResolveStar(stars[k0], grid[codes.c0], tr0)
                      r1 == IF codes.c1 = None THEN <<0, 0, FALSE>>
                            ELSE ResolveStar(stars[k1], grid[codes.c1], tr1)
                      truncated == r0[3] \/ r1[3]
                      \* the star's record after lines 672-692
                      After(k, code, r) ==
                        IF code = None THEN stars[k]
                        ELSE IF truncated
                             THEN [r[1] EXCEPT !.disk_radius = get_disk_radius(r[2])]
                             ELSE r[1]
                  IN /\ pc' = "stellar_half_2"
                     /\ error' = error
                     /\ star_codes' = <<codes.c0, codes.c1>>
                     /\ stars' = [k \in Small |->
                                    IF k = k0 THEN After(k0, codes.c0, r0)
                                    ELSE IF k = k1 THEN After(k1, codes.c1, r1)
                                    ELSE stars[k]]
                     /\ grid' = [h \in Handles |->
                                   IF h = codes.c0 THEN r0[2]
                                   ELSE IF h = codes.c1 THEN r1[2]
                                   ELSE grid[h]]
  /\ UNCHANGED <<clock, bright_stars, registry, diverged_disks, loops, evolved, evap>>

\* stellar.evolve_model(dt/2)
StellarHalf2 ==
  /\ pc = "stellar_half_2"
  /\ UNCHANGED calls
  /\ encountering_stars' = <<>>
  /\ star_codes' = <<>>
  /\ collisions' = NoCollision
  /\ pc' = "supernova"
  /\ Mark("stellar_half_2")
  /\ UNCHANGED <<clock, stars, bright_stars, registry, diverged_disks, grid, loops,
                 evolved, evap, error>>

\* ------------------------------------------- the supernova: lines 705-746
\* detect_supernova.is_set() is false
NoSupernova ==
  /\ pc = "supernova"
  /\ UNCHANGED <<calls, encounter>>
  /\ pc' = "viscous"
  /\ cur' = 1
  /\ Mark("supernova")
  /\ UNCHANGED <<clock, stars, bright_stars, registry, diverged_disks, grid, zipped,
                 photo, evolved, evap, error>>

\* a bright star exploded: the channels are copied (lines 707-709) and the loop
\* over small_stars starts
SupernovaDetected ==
  /\ pc = "supernova"
  /\ UNCHANGED <<calls, encounter>>
  /\ bright_stars # {}
  /\ pc' = "supernova_loop"
  /\ cur' = 1
  /\ stars' = FromGravity
  /\ Mark("supernova")
  /\ UNCHANGED <<clock, bright_stars, registry, diverged_disks, grid, zipped,
                 photo, evolved, evap, error>>

\* lines 719-742: one iteration of "for n in small_stars", star n = cur at
\* explosion distance d
SupernovaStar ==
  /\ pc = "supernova_loop"
  /\ UNCHANGED <<calls, encounter>>
  /\ cur <= NS
  /\ \E d \in Distances :
       LET n == cur
           r_disk == SupernovaRadius(d)
       IN IF 0 < r_disk /\ r_disk < stars[n].disk_radius
          THEN IF ~Registered(n)
               THEN /\ Raise("KeyError")
                    /\ UNCHANGED <<stars, grid, registry, cur>>
               ELSE LET new_code == truncate_disk(grid[CodeOf(n)], r_disk)
                        radius == get_disk_radius(new_code)
                    IN /\ grid' = [grid EXCEPT ![CodeOf(n)] = new_code]
                       /\ stars' = [stars EXCEPT
                                      ![n].disk_radius = radius,
                                      ![n].disk_mass = get_disk_mass(new_code, radius)]
                       /\ cur' = cur + 1
                       /\ UNCHANGED <<pc, error, registry>>
          ELSE IF r_disk = 0
          THEN /\ stars' = [stars EXCEPT ![n].disk_radius = 0, ![n].disk_mass = 0,
                                         ![n].dispersed = TRUE, ![n].checked = TRUE]
               /\ IF ~Registered(n)
                  THEN /\ Raise("KeyError")
                       /\ UNCHANGED <<registry, grid, cur>>
                  ELSE /\ Retire(n, None, grid)
                       /\ cur' = cur + 1
                       /\ UNCHANGED <<pc, error>>
          ELSE UNCHANGED <<pc, error, stars, grid, registry>> /\ cur' = cur + 1
  /\ UNCHANGED <<clock, bright_stars, diverged_disks, zipped, photo, phases, evolved,
                 evap>>

\* lines 744-746: the exploded star leaves stars and bright_stars
SupernovaEnd ==
  /\ pc = "supernova_loop"
  /\ UNCHANGED <<calls, encounter>>
  /\ cur > NS
  /\ \E b \in bright_stars : bright_stars' = bright_stars \ {b}
  /\ pc' = "viscous"
  /\ cur' = 1
  /\ UNCHANGED <<clock, stars, registry, diverged_disks, grid, zipped, photo, phases,
                 evolved, evap, error>>

\* ------------------------------------- viscous evolution: lines 89-146, 749
\* evolve_single_disk(codes[i], dt): the solver succeeds, or raises and the handle
\* is recorded as diverged
EvolveDisk ==
  /\ pc = "viscous"
  /\ UNCHANGED <<calls, encounter>>
  /\ cur <= Len(disk_codes)
  /\ LET c == disk_codes[cur]
     IN /\ \/ /\ \E g \in ViscousOutcomes(grid[c]) : grid' = [grid EXCEPT ![c] = g]
              /\ diverged_disks' = diverged_disks
           \/ /\ diverged_disks' = [diverged_disks EXCEPT ![c] = TRUE]
              /\ grid' = grid
        /\ evolved' = evolved \cup {c}
  /\ cur' = cur + 1
  /\ Mark("viscous")
  /\ UNCHANGED <<pc, clock, stars, bright_stars, registry, zipped, photo, evap, error>>

\* mutant of ViscousPassDone: the pass ends after the first handle
ViscousPassDone_First == cur > 1

\* for i in range(len(codes)) is exhausted
ViscousPassDone == cur > Len(disk_codes)

\* zip(small_stars, disk_codes): Python 2 builds the list of pairs at once
Zip == [p \in 1 .. Min(NS, Len(disk_codes)) |-> <<p, disk_codes[p]>>]

ViscousEnd ==
  /\ pc = "viscous"
  /\ UNCHANGED <<calls, encounter>>
  /\ ViscousPassDone
  /\ pc' = "check"
  /\ zipped' = Zip
  /\ cur' = 1
  /\ Mark("viscous")
  /\ UNCHANGED <<clock, stars, bright_stars, registry, diverged_disks, grid, photo,
                 evolved, evap, error>>

\* ---------------------------------------------- the check pass: lines 752-819
\* the attributes a retirement block writes: disk fields zeroed, dispersed, checked
Zeroed(s) ==
  [s EXCEPT !.disk_radius = 0, !.disk_mass = 0, !.dispersed = TRUE,
            !.checked = TRUE, !.code = FALSE]

\* lines 754-757: cleanup of a disk dispersed in an encounter
CleanedUp(s) ==
  [s EXCEPT !.disk_radius = 0, !.disk_mass = 0, !.checked = TRUE, !.code = FALSE]

\* lines 773-775: the attributes written when the disk diverged
Diverged(s) == [s EXCEPT !.dispersed = TRUE, !.code = FALSE, !.checked = TRUE]

\* line 793: the dispersal test on star s and handle grid g
DispersedNow(s, g) ==
  s.disk_radius < HalfAu \/ DensityAtMost(get_disk_density(g), DispersionThreshold)

\* lines 816-817: the star's disk radius and mass are read from handle grid g
Updated(s, g) ==
  [s EXCEPT !.disk_radius = get_disk_radius(g),
            !.disk_mass = get_disk_mass(g, get_disk_radius(g))]

\* lines 813-819: the accreted mass goes to the star, the disk radius and mass are
\* read from handle grid g, and the total mass is set
Accrete(s, g, accreted) ==
  LET u == Updated([s EXCEPT !.stellar_mass = @ + accreted], g)
  IN [u EXCEPT !.mass = u.stellar_mass + u.disk_mass]

\* a retirement block for star k after its attributes were written; also is the
\* handle of an extra stop(), or None
RetireOrRaise(k, also) ==
  IF Registered(k)
  THEN Retire(k, also, grid) /\ UNCHANGED <<pc, error>> /\ cur' = cur + 1
  ELSE /\ Raise("KeyError")
       /\ stopped' = [h \in Handles |-> stopped[h] \/ h = also]
       /\ grid' = grid
       /\ UNCHANGED <<disk_codes, disk_codes_indices, active_disks, cur>>

\* one iteration of "for s, c in zip(small_stars, disk_codes)"
CheckStar ==
  /\ pc = "check"
  /\ UNCHANGED <<calls, encounter>>
  /\ cur <= Len(zipped)
  /\ LET s == zipped[cur][1]
         c == zipped[cur][2]
     IN IF stars[s].dispersed /\ ~stars[s].checked
        THEN /\ stars' = [stars EXCEPT ![s] = CleanedUp(stars[s])]
             /\ RetireOrRaise(s, None)
        ELSE IF stars[s].code /\ ~stars[s].checked /\ diverged_disks[c]
        THEN /\ stars' = [stars EXCEPT ![s] = Diverged(stars[s])]
             /\ RetireOrRaise(s, c)
        ELSE IF stars[s].code /\ ~stars[s].checked /\ DispersedNow(stars[s], grid[c])
        THEN /\ stars' = [stars EXCEPT ![s] = Zeroed(stars[s])]
             /\ RetireOrRaise(s, None)
        ELSE /\ \E accreted \in Accreted :
                  stars' = [stars EXCEPT ![s] = Accrete(stars[s], grid[c], accreted)]
             /\ cur' = cur + 1
             /\ UNCHANGED <<pc, error, registry, grid>>
  /\ Mark("check")
  /\ UNCHANGED <<clock, bright_stars, diverged_disks, zipped, photo, evolved, evap>>

\* small_stars[small_stars.dispersed == False], in population order
RECURSIVE NotDispersed(_)
NotDispersed(n) ==
  IF n = 0 THEN <<>>
  ELSE IF stars[n].dispersed THEN NotDispersed(n - 1)
  ELSE Append(NotDispersed(n - 1), n)

CheckEnd ==
  /\ pc = "check"
  /\ UNCHANGED <<calls, encounter>>
  /\ cur > Len(zipped)
  /\ pc' = "photo"
  /\ photo' = NotDispersed(NS)
  /\ cur' = 1
  /\ Mark("check")
  /\ UNCHANGED <<clock, stars, bright_stars, registry, diverged_disks, grid, zipped,
                 evolved, evap, error>>

\* ------------------------------------------- photoevaporation: lines 854-969
\* mutant of PhotoevapGone: a cumulative loss equal to the initial mass is not enough
PhotoevapGone_Strict(cumulative, initial_disk_mass, disk_mass) ==
  cumulative > initial_disk_mass \/ disk_mass < MassFloor

\* line 924: the disk is gone by photoevaporation
PhotoevapGone(cumulative, initial_disk_mass, disk_mass) ==
  cumulative >= initial_disk_mass \/ disk_mass < MassFloor

\* one iteration of "for ss in small_stars[small_stars.dispersed == False]" with
\* total_photoevap_mass_loss = loss
PhotoStar ==
  /\ pc = "photo"
  /\ UNCHANGED <<calls, encounter>>
  /\ cur <= Len(photo)
  /\ \E loss \in MassLosses :
       LET ss == photo[cur]
           cumulative == stars[ss].cumulative_photoevap_mass_loss + loss
           lost == [stars[ss] EXCEPT !.cumulative_photoevap_mass_loss = cumulative]
       IN IF ~Registered(ss)
          THEN \* line 878 looks the handle up before anything is written
               /\ Raise("KeyError")
               /\ UNCHANGED <<stars, grid, registry, cur, evap>>
          ELSE IF PhotoevapGone(cumulative, stars[ss].initial_disk_mass,
                                stars[ss].disk_mass)
          THEN /\ stars' = [stars EXCEPT ![ss] = Zeroed(lost)]
               /\ RetireOrRaise(ss, None)
               /\ evap' = evap
          ELSE LET evaporated_disk == evaporate(grid[CodeOf(ss)], loss)
               IN /\ evap' = evap \cup {ss}
                  /\ IF evaporated_disk # NoDisk
                     THEN /\ grid' = [grid EXCEPT ![CodeOf(ss)] = evaporated_disk]
                          /\ stars' = [stars EXCEPT
                                         ![ss] = Updated(lost, evaporated_disk)]
                          /\ cur' = cur + 1
                          /\ UNCHANGED <<pc, error, registry>>
                     ELSE /\ stars' = [stars EXCEPT ![ss] = Zeroed(lost)]
                          /\ RetireOrRaise(ss, None)
  /\ Mark("photoevaporation")
  /\ UNCHANGED <<clock, bright_stars, diverged_disks, zipped, photo, evolved>>

PhotoEnd ==
  /\ pc = "photo"
  /\ UNCHANGED <<calls, encounter>>
  /\ cur > Len(photo)
  /\ pc' = "advance"
  /\ Mark("photoevaporation")
  /\ UNCHANGED <<clock, stars, bright_stars, registry, diverged_disks, grid, loops,
                 evolved, evap, error>>

\* ------------------------------------------ the end of a step: lines 973-1010
\* t += dt
TimeAdvance ==
  /\ pc = "advance"
  /\ UNCHANGED <<calls, encounter>>
  /\ t' = t + dt
  /\ pc' = "bookkeeping"
  /\ Mark("time_advance")
  /\ UNCHANGED <<dt, stars, bright_stars, registry, diverged_disks, grid, loops,
                 evolved, evap, error>>

\* lines 976-1000: the snapshot and the energy files; break when no disk is left
Bookkeeping ==
  /\ pc = "bookkeeping"
  /\ UNCHANGED <<calls, encounter>>
  /\ pc' = IF active_disks <= 0 THEN "done" ELSE "loop"
  /\ Mark("bookkeeping")
  /\ UNCHANGED <<clock, stars, bright_stars, registry, diverged_disks, grid, loops,
                 evolved, evap, error>>

\* lines 1005-1010: after the loop every remaining handle is stopped
Shutdown ==
  /\ pc = "done"
  /\ UNCHANGED <<calls, encounter>>
  /\ pc' = "returned"
  /\ stopped' = [h \in Handles |-> stopped[h] \/ \E p \in 1 .. Len(disk_codes) :
                                                   disk_codes[p] = h]
  /\ UNCHANGED <<clock, stars, bright_stars, disk_codes, disk_codes_indices,
                 active_disks, diverged_disks, grid, loops, phases, evolved, evap,
                 error>>

Next ==
  \/ LoopHead
  \/ StellarHalf1
  \/ GravityStep
  \/ NoEncounter
  \/ Encounter
  \/ StellarHalf2
  \/ NoSupernova
  \/ SupernovaDetected
  \/ SupernovaStar
  \/ SupernovaEnd
  \/ EvolveDisk
  \/ ViscousEnd
  \/ CheckStar
  \/ CheckEnd
  \/ PhotoStar
  \/ PhotoEnd
  \/ TimeAdvance
  \/ Bookkeeping
  \/ Shutdown

Spec == Init /\ [][Next]_vars

\* ------------------------------- the grid functions on their own: lines 149-247
\* column densities of a cell: the two floors, the radius limit, a dense cell
DensityLevels == {LowerDensity, TruncateLimit, RadiusLimit, 3 * RadiusLimit}
\* every column-density profile over the grid, also with gaps
Profiles == [1 .. NCells -> DensityLevels]
\* new_radius of truncate_disk: inside, on and between the cells, beyond the grid
NewRadii == 0 .. (GridR(NCells) + 1)
\* mass_to_remove of evaporate: nothing, less than a cell, some cells, everything
MassesToRemove == {0, 1, RadiusLimit, 5 * RadiusLimit, 40 * RadiusLimit}

GridCalls ==
  {[fn |-> "get_disk_radius", disk |-> g, arg |-> 0, done |-> FALSE] : g \in Profiles}
  \cup {[fn |-> "truncate_disk", disk |-> g, arg |-> r, done |-> FALSE] :
          g \in Profiles, r \in NewRadii}
  \cup {[fn |-> "evaporate", disk |-> g, arg |-> m, done |-> FALSE] :
          g \in Profiles, m \in MassesToRemove}

\* main() is not running
Idle ==
  /\ pc = "idle"
  /\ t = 0
  /\ dt = 1
  /\ stars = <<>>
  /\ bright_stars = {}
  /\ disk_codes = <<>>
  /\ disk_codes_indices = <<>>
  /\ active_disks = 0
  /\ diverged_disks = <<>>
  /\ grid = <<>>
  /\ stopped = <<>>
  /\ cur = 0
  /\ zipped = <<>>
  /\ photo = <<>>
  /\ phases = <<>>
  /\ evolved = {}
  /\ evap = {}
  /\ error = "none"
  /\ encountering_stars = <<>>
  /\ star_codes = <<>>
  /\ collisions = NoCollision

GridInit ==
  /\ Idle
  /\ call \in GridCalls
  /\ disk = call.disk
  /\ ret = None

\* the call returns
Return == call' = [call EXCEPT !.done = TRUE]

\* get_disk_radius(disk)
GetDiskRadius ==
  /\ call.fn = "get_disk_radius"
  /\ ~call.done
  /\ ret' = get_disk_radius(disk)
  /\ Return
  /\ UNCHANGED <<main, disk>>

\* truncate_disk(disk, new_radius) changes the grid of the handle and returns it
TruncateDisk ==
  /\ call.fn = "truncate_disk"
  /\ ~call.done
  /\ disk' = truncate_disk(disk, call.arg)
  /\ ret' = disk'
  /\ Return
  /\ UNCHANGED main

\* evaporate(disk, mass_to_remove) returns None or the truncated handle
Evaporate ==
  /\ call.fn = "evaporate"
  /\ ~call.done
  /\ ret' = evaporate(disk, call.arg)
  /\ disk' = IF ret' = NoDisk THEN disk ELSE ret'
  /\ Return
  /\ UNCHANGED main

GridNext ==
  \/ GetDiskRadius
  \/ TruncateDisk
  \/ Evaporate

GridSpec == GridInit /\ [][GridNext]_vars

\* --------------------------- the FRIED table lookup: lines 271-300, 881-915
Brackets == 8                      \* Mdot_values = numpy.ndarray(shape=(8, ))
\* the row numbers of the table, 0-based
Rows == 0 .. (NRows - 1)
\* what a column of the table can hold
AxisValues == 1 .. NRows
\* the columns of the table
Columns == [1 .. NRows -> AxisValues]
\* val of find_indices: below, on, and above what a column holds
Queries == 0 .. (NRows + 1)
\* grid_log10Mdot: log10 of the mass-loss rate of a row
grid_log10Mdot == [x \in Rows |-> 0 - (x + 6)]
\* what an element of numpy.ndarray(shape=(8, )) can hold before it is assigned
Uninitialised == {0, grid_log10Mdot[0]}

SetMax(S) == CHOOSE x \in S : \A y \in S : y <= x
SetMin(S) == CHOOSE x \in S : \A y \in S : x <= y

\* numpy.where(column == value)[0][0], and list.index(value): the first position,
\* 0-based
FirstIndex(column, value) ==
  SetMin({i \in 1 .. Len(column) : column[i] = value}) - 1

find_indices(column, val) ==
  LET held == {column[i] : i \in 1 .. Len(column)}
      less == {v \in held : v < val}
      more == {v \in held : v > val}
      value_below == IF less # {} THEN SetMax(less) ELSE SetMin(held)
      value_above == IF more # {} THEN SetMin(more) ELSE SetMax(held)
  IN <<FirstIndex(column, value_below), FirstIndex(column, value_above)>>

\* the positions p of Mdot_values that the loop assigns: indices_list.index(x) is
\* the first position of x
Assigned(indices_list) ==
  {p \in 1 .. Brackets : FirstIndex(indices_list, indices_list[p]) = p - 1}

\* lines 905-911: Mdot_values after the loop over indices_list, uninit being what
\* the new array held at the positions that the loop does not assign
MdotValues(indices_list, uninit) ==
  [p \in 1 .. Brackets |->
     IF p \in DOMAIN uninit THEN uninit[p] ELSE grid_log10Mdot[indices_list[p]]]

TableCalls ==
  {[fn |-> "find_indices", column |-> c, val |-> v, done |-> FALSE] :
     c \in Columns, v \in Queries}
  \cup {[fn |-> "Mdot_values", indices_list |-> l, done |-> FALSE] :
          l \in [1 .. Brackets -> Rows]}

TableInit ==
  /\ Idle
  /\ call \in TableCalls
  /\ disk = NoDisk
  /\ ret = None

\* find_indices(column, val)
FindIndices ==
  /\ call.fn = "find_indices"
  /\ ~call.done
  /\ ret' = find_indices(call.column, call.val)
  /\ Return
  /\ UNCHANGED <<main, disk>>

\* lines 905-911: the new array holds anything; the loop assigns into it
FillMdotValues ==
  /\ call.fn = "Mdot_values"
  /\ ~call.done
  /\ LET unassigned == (1 .. Brackets) \ Assigned(call.indices_list)
     IN \E uninit \in [unassigned -> Uninitialised] :
          ret' = MdotValues(call.indices_list, uninit)
  /\ Return
  /\ UNCHANGED <<main, disk>>

TableNext ==
  \/ FindIndices
  \/ FillMdotValues

TableSpec == TableInit /\ [][TableNext]_vars

\* ================================================================ claims
IsPrefix(a, b) == Len(a) <= Len(b) /\ \A i \in 1 .. Len(a) : a[i] = b[i]

InRegistry(h) == \E p \in 1 .. Len(disk_codes) : disk_codes[p] = h

\* disk fields zeroed and dispersed = true
Frozen(s) == s.dispersed /\ s.disk_radius = 0 /\ s.disk_mass = 0

\* the loop of main() has been left
LoopLeft == pc \in {"done", "returned", "crashed"}

\* the phases of a step in the order of the code: t += dt precedes the snapshot
CodeOrder ==
  <<"stellar_half_1", "gravity", "encounter", "stellar_half_2", "supernova",
    "viscous", "check", "photoevaporation", "time_advance", "bookkeeping">>

\* the phases of a step in the order the specification states
StatedOrder ==
  <<"stellar_half_1", "gravity", "encounter", "stellar_half_2", "supernova",
    "viscous", "check", "photoevaporation", "bookkeeping", "time_advance">>

\* C1: in every state the mapping disk_codes_indices is injective, its image is
\* exactly 0 .. active_disks - 1, and active_disks is the number of registered
\* keys and the length of disk_codes.
C1_RegistryDense ==
  /\ \A j, k \in DOMAIN disk_codes_indices :
       j # k => disk_codes_indices[j] # disk_codes_indices[k]
  /\ {disk_codes_indices[k] : k \in DOMAIN disk_codes_indices}
       = 0 .. (active_disks - 1)
  /\ active_disks = Cardinality(DOMAIN disk_codes_indices)
  /\ active_disks = Len(disk_codes)

\* C1 witness: a key was retired below a remaining key, whose index was shifted
C1_Witness ==
  \E k \in Small :
    /\ Registered(k)
    /\ disk_codes_indices[k] < k - 1
    /\ pc = "loop"

\* C2: a step that removes key k at index p removes the handle at position p,
\* decrements exactly the indices above p, counts active_disks down by one, and
\* leaves every remaining key on the handle created for its star.
C2_RetireFrame ==
  [][\A k \in Small :
       (Registered(k) /\ k \notin DOMAIN disk_codes_indices')
       => LET p == disk_codes_indices[k]
          IN /\ DOMAIN disk_codes_indices' = (DOMAIN disk_codes_indices) \ {k}
             /\ \A j \in DOMAIN disk_codes_indices' :
                  disk_codes_indices'[j] =
                    IF disk_codes_indices[j] > p THEN disk_codes_indices[j] - 1
                    ELSE disk_codes_indices[j]
             /\ Len(disk_codes') = Len(disk_codes) - 1
             /\ \A q \in 1 .. Len(disk_codes') :
                  disk_codes'[q] = IF q <= p THEN disk_codes[q] ELSE disk_codes[q + 1]
             /\ active_disks' = active_disks - 1
             /\ \A j \in DOMAIN disk_codes_indices' :
                  disk_codes'[disk_codes_indices'[j] + 1] = j]_vars

\* C2 witness: star 1 was retired and star 2 moved down onto its own handle
C2_Witness ==
  /\ ~Registered(1)
  /\ Registered(2)
  /\ disk_codes_indices[2] = 0
  /\ disk_codes[1] = 2
  /\ active_disks = NS - 1

\* C3 (as claimed): a star that is retired and frozen stays frozen in every later
\* state: no step writes a non-zero disk radius or mass to it.
C3_RetiredStaysFrozen ==
  [][\A k \in Small :
       (~Registered(k) /\ Frozen(stars[k])) => Frozen(stars'[k])]_vars

\* C4 (as claimed): every step that removes a key from the registry leaves the
\* star dispersed with disk radius and disk mass zero.
C4_RetiredIsZeroed ==
  [][\A k \in Small :
       (Registered(k) /\ k \notin DOMAIN disk_codes_indices')
       => Frozen(stars'[k])]_vars

\* C5 (as claimed): when a check pass has finished, no handle that remains in
\* disk_codes is marked diverged.
C5_NoDivergedAfterCheck ==
  pc \in {"photo", "advance", "bookkeeping"}
  => \A p \in 1 .. Len(disk_codes) : ~diverged_disks[disk_codes[p]]

\* C6 (as claimed): when the check pass of a step has finished, no star is
\* dispersed and still registered.
C6_NoDispersedRegistered ==
  pc \in {"photo", "advance", "bookkeeping"}
  => \A k \in Small : ~(stars[k].dispersed /\ Registered(k))

\* C7 (as claimed): the phases of a step run in the stated order, the snapshot
\* bookkeeping before the time advance.
C7_StatedOrder == IsPrefix(phases, StatedOrder)

\* C7 (amended): the phases of a step run in the stated order except that the
\* time advance precedes the bookkeeping, none interleaved, and the check pass
\* runs only after evolve was attempted on every handle in the registry.
C7_PhaseOrder ==
  /\ IsPrefix(phases, CodeOrder)
  /\ pc = "check" => \A h \in Handles : InRegistry(h) => h \in evolved

\* C7 witness: a whole step has run and evolve was attempted on two handles
C7_Witness ==
  /\ phases = CodeOrder
  /\ Cardinality(evolved) >= 2

\* C8 (as claimed): when the loop has been left, t equals t_end or no active disk
\* remains.
C8_ExitAtEndOrNoDisks == LoopLeft => (t = TEnd \/ active_disks <= 0)

\* C9: a step of the photoevaporation pass on star ss, which is not dispersed:
\* if its cumulative loss including this step's is >= its initial disk mass or its
\* disk mass is below the floor, ss is retired and evaporate is not called for it;
\* otherwise evaporate is called for it.
C9_PhotoevapRetirement ==
  [][\A ss \in Small :
       (pc = "photo" /\ cur <= Len(photo) /\ photo[cur] = ss)
       => /\ ~stars[ss].dispersed
          /\ IF \/ stars'[ss].cumulative_photoevap_mass_loss
                     >= stars[ss].initial_disk_mass
                \/ stars[ss].disk_mass < MassFloor
             THEN /\ Frozen(stars'[ss])
                  /\ ss \notin DOMAIN disk_codes_indices'
                  /\ ss \notin evap'
             ELSE ss \in evap']_vars

\* C9 witness: the pass retired a star whose cumulative loss equals its initial
\* disk mass, without evaporate, and called evaporate for another
C9_Witness ==
  /\ pc = "photo"
  /\ \E a, b \in Small :
       /\ stars[a].dispersed
       /\ ~Registered(a)
       /\ a \notin evap
       /\ stars[a].cumulative_photoevap_mass_loss = stars[a].initial_disk_mass
       /\ b \in evap

\* C10 (as claimed): the supernova response never looks up a star key that is
\* absent from the registry.
C10_NoSupernovaKeyError ==
  ~(pc = "crashed" /\ error = "KeyError" /\ phases[Len(phases)] = "supernova")

\* the call of fn has returned
Returned(fn) == call.fn = fn /\ call.done

\* the mass of the disk in grid g
DiskMass(g) == get_disk_mass(g, get_disk_radius(g))

\* C11 (as claimed): if evaporate returns a handle, its disk radius is <= the
\* radius of the disk it was given; if it returns None, the disk it was given
\* held less than mass_to_remove.
C11_EvaporateMonotone ==
  Returned("evaporate")
  => IF ret # NoDisk
     THEN get_disk_radius(ret) <= get_disk_radius(call.disk)
     ELSE DiskMass(call.disk) < call.arg

RECURSIVE StatedStop(_, _, _, _)
\* the walk as stated: from cell i inward, the first cell at which the running
\* total meets mass_to_remove (the innermost cell if none does)
StatedStop(g, mass_to_remove, i, swiped) ==
  IF i <= 1 THEN 1
  ELSE IF swiped + g[i] * GridArea(i) >= mass_to_remove THEN i
  ELSE StatedStop(g, mass_to_remove, i - 1, swiped + g[i] * GridArea(i))

\* C12 (as claimed): evaporate accumulates cell masses from the cell of the disk
\* radius inward, truncates the disk at the first cell at which the running total
\* meets mass_to_remove, and the mass taken out of the disk is the mass accumulated.
C12_EdgeInward ==
  (Returned("evaporate") /\ ret # NoDisk)
  => /\ ret = truncate_disk(call.disk,
                 GridR(StatedStop(call.disk, call.arg, RadiusCell(call.disk), 0)))
     /\ DiskMass(call.disk) - DiskMass(ret) = swiped_mass(call.disk, call.arg)

\* the outermost cell of g whose column density is at least the floor
OutermostDense(g) ==
  CHOOSE i \in 1 .. Len(g) :
    /\ g[i] >= RadiusLimit
    /\ \A j \in (i + 1) .. Len(g) : g[j] < RadiusLimit

\* C13 (as claimed): get_disk_radius returns the radius of the outermost cell whose
\* column density is >= the floor, also when the profile drops below the floor and
\* rises again further out; the first cell's radius if the first cell is below it.
C13_OutermostCell ==
  Returned("get_disk_radius")
  => ret = IF call.disk[1] < RadiusLimit THEN GridR(1)
           ELSE GridR(OutermostDense(call.disk))

\* C14: truncate_disk at a new_radius >= the disk radius leaves get_disk_radius
\* and get_disk_mass at that radius as they were.
C14_TruncateBeyondIsNoOp ==
  (Returned("truncate_disk") /\ call.arg >= get_disk_radius(call.disk))
  => /\ get_disk_radius(disk) = get_disk_radius(call.disk)
     /\ get_disk_mass(disk, get_disk_radius(call.disk)) = DiskMass(call.disk)

\* C14 witness: a disk that ends inside the grid was truncated exactly at its
\* radius, and the truncation wrote cells beyond it
C14_Witness ==
  /\ Returned("truncate_disk")
  /\ call.arg = get_disk_radius(call.disk)
  /\ call.disk[1] >= RadiusLimit
  /\ call.arg < GridR(NCells)
  /\ disk # call.disk

\* C15 (as claimed): for a val that a row of the column holds, find_indices
\* returns a below index and an above index of one and the same row, which holds
\* val.
C15_ExactValueSameRow ==
  (Returned("find_indices")
     /\ \E i \in 1 .. Len(call.column) : call.column[i] = call.val)
  => /\ call.column[ret[1] + 1] = call.val
     /\ call.column[ret[2] + 1] = call.val
     /\ ret[1] = ret[2]

\* C20 (as claimed): every element of Mdot_values holds the log10 mass-loss rate
\* of the row at the same position of indices_list, also when rows repeat.
C20_MdotOfSameRow ==
  Returned("Mdot_values")
  => \A p \in 1 .. Brackets : ret[p] = grid_log10Mdot[call.indices_list[p]]

\* C16 (as claimed): an encounter that disperses the disk of star k leaves k with
\* disk mass and disk radius zero, a step truncation mass loss equal to the disk
\* mass k had before, a cumulative truncation mass loss increased by that mass,
\* and its handle where it was in the registry.
C16_EncounterDispersal ==
  [][\A k \in Small :
       (pc = "encounter" /\ ~stars[k].dispersed /\ stars'[k].dispersed)
       => /\ stars'[k].disk_mass = 0
          /\ stars'[k].disk_radius = 0
          /\ stars'[k].truncation_mass_loss = stars[k].disk_mass
          /\ stars'[k].cumulative_truncation_mass_loss
               = stars[k].cumulative_truncation_mass_loss + stars[k].disk_mass
          /\ disk_codes' = disk_codes
          /\ disk_codes_indices' = disk_codes_indices]_vars

\* C17 (as claimed): of the two stars of a resolved encounter, each one that has a
\* registry entry has its own handle passed to resolve_encounter, and None is
\* passed only for a star without a registry entry.
C17_OwnHandlePassed ==
  star_codes # <<>>
  => \A i \in 1 .. 2 :
       IF Registered(encountering_stars[i])
       THEN star_codes[i] = CodeOf(encountering_stars[i])
       ELSE star_codes[i] = None

\* C18 (as claimed): every colliding pair reported in a step is passed to
\* resolve_encounter in that step.
C18_EveryPairResolved == collisions.resolved = collisions.reported

\* C19 (as claimed): the check pass pairs every star that has a registry entry
\* with the handle registered under its own key, and pairs no other star.
C19_CheckPassOwnHandle ==
  pc = "check"
  => /\ \A p \in 1 .. Len(zipped) : InRegistry(zipped[p][2]) =>
            /\ Registered(zipped[p][1])
            /\ CodeOf(zipped[p][1]) = zipped[p][2]
     /\ cur = 1 => \A k \in Small : Registered(k) =>
                     \E p \in 1 .. Len(zipped) : zipped[p][1] = k

\* C21 (as claimed): while main() is in its loop, no handle that remains in
\* disk_codes has been stopped.
C21_NoStoppedHandleRegistered ==
  pc # "returned" => \A p \in 1 .. Len(disk_codes) : ~stopped[disk_codes[p]]

\* C22 (as claimed): at the end of every step, the total mass of every low-mass
\* star is its stellar mass plus its disk mass.
C22_MassIsStellarPlusDisk ==
  pc = "bookkeeping"
  => \A k \in Small : stars[k].mass = stars[k].stellar_mass + stars[k].disk_mass

====
